---- MODULE Spec2Model ----
(***************************************************************************)
(* Model of opt/interdex/InterDexPass.cpp: InterDexPass::configure_pass,   *)
(* the two InterDexPass::run_pass overloads, and the helpers               *)
(* get_mixed_mode_dex_statuses / get_mixed_mode_classes.                   *)
(*                                                                         *)
(* The pass object is a process-wide static (s_pass); its m_* members are  *)
(* the persistent state.  The JSON configuration, the stores, the per-class*)
(* mix-mode flags, the ProGuard precondition and the classification file   *)
(* are inputs.  The packing engine (InterDex) and the plugins are          *)
(* collaborators: only what this file does to them is modelled.            *)
(***************************************************************************)
EXTENDS Integers, Sequences, FiniteSets, TLC

\* ---------------------------------------------------------------- bounds
MaxNames       == 2   \* longest mixed_mode_dexes list
MaxFileLen     == 2   \* most identifiers in the classification file
MaxStores      == 2   \* stores handed to run_pass
NumPlugins     == 2   \* plugins the registry creates
MaxInvocations == 2   \* times the pass manager runs the (static) pass

\* ------------------------------------------------------ program constants
DefaultLinearAllocLimit == 11878400   \* 11600 * 1024

VARIABLES
  pc,                \* position of the single thread of control
  jw,                \* the JsonWrapper of the configure_pass call; gone once it returns
  m_static_prune, m_emit_canaries, m_normal_primary_dex, m_linear_alloc_limit,
  m_mixed_mode_classes_file,
  m_can_touch_coldstart_cls, m_can_touch_coldstart_extended_cls,
  m_mixed_mode_dex_statuses,
  configured,        \* history: the members as configure_pass left them
  no_proguard_rules, \* mgr.no_proguard_rules()
  stores,            \* DexStoresVector: [is_root, dexen]
  stores0,           \* history: the stores as first handed to the pass
  has_mix_mode,      \* classes whose rstate.has_mix_mode() is set
  fs,                \* the classification file, as observed when opened
  invocations,       \* run_pass(stores) calls so far
  si,                \* index of the store the outer loop is at
  pi,                \* index of the plugin the current plugin loop is at
  plugins,           \* local: plugins of the current run_pass(dexen)
  interdex,          \* local: the InterDex object of the current run
  classification,    \* history: what the current run's classification did
  events,            \* history: events of the current run_pass(dexen)
  runCount,          \* history: interdex.run() calls per store, this call
  metrics            \* mgr: names of the metrics published so far

members == <<m_static_prune, m_emit_canaries, m_normal_primary_dex,
             m_linear_alloc_limit, m_mixed_mode_classes_file,
             m_can_touch_coldstart_cls, m_can_touch_coldstart_extended_cls,
             m_mixed_mode_dex_statuses>>

env == <<no_proguard_rules, stores0, has_mix_mode>>

vars == <<pc, jw, members, configured, env, stores, fs, invocations, si, pi,
          plugins, interdex, classification, events, runCount, metrics>>

\* ---------------------------------------------------------------- helpers
RECURSIVE SeqsUpTo(_, _)
SeqsUpTo(S, n) ==
  IF n = 0 THEN {<<>>}
  ELSE LET shorter == SeqsUpTo(S, n - 1)
       IN  shorter \cup {Append(s, x) : s \in {t \in shorter : Len(t) = n - 1}, x \in S}

Range(s) == {s[i] : i \in DOMAIN s}

RECURSIVE Flatten(_)
Flatten(ss) == IF ss = <<>> THEN <<>> ELSE Head(ss) \o Flatten(Tail(ss))

\* ------------------------------------------------- segment-name resolution
KnownNames == {"first_coldstart_dex", "first_extended_dex", "scroll_dex"}

string_to_status ==
  [n \in KnownNames |->
     CASE n = "first_coldstart_dex" -> "FIRST_COLDSTART_DEX"
       [] n = "first_extended_dex"  -> "FIRST_EXTENDED_DEX"
       [] n = "scroll_dex"          -> "SCROLL_DEX"]

\* names a configuration may list: the built-in keys and one that is not
SegmentNames == KnownNames \cup {"no_such_dex"}

\* the for loop of get_mixed_mode_dex_statuses from position i with the local
\* set res; ok = FALSE is the always_assert_log failing at names[i]
RECURSIVE dex_statuses_loop(_, _, _)
dex_statuses_loop(names, i, res) ==
  IF i > Len(names) THEN [ok |-> TRUE, res |-> res]
  ELSE IF names[i] \notin DOMAIN string_to_status
       THEN [ok |-> FALSE, res |-> res]
       ELSE dex_statuses_loop(names, i + 1, res \cup {string_to_status[names[i]]})

\* mutation: an unknown name is skipped instead of asserted on
get_mixed_mode_dex_statuses_skipping(names) ==
  [ok |-> TRUE,
   res |-> {string_to_status[names[i]] :
              i \in {j \in DOMAIN names : names[j] \in KnownNames}}]

get_mixed_mode_dex_statuses(names) == dex_statuses_loop(names, 1, {})

\* mutation: the permission assertion is dropped
permissions_unchecked(cs, ext) == TRUE

\* the condition of the always_assert_log in configure_pass
permissions_assert(cs, ext) == ~cs \/ ext

\* --------------------------------------------------------- classification
\* Identifiers a classification file may hold, and how the type and class
\* tables resolve them.  Types are named by their descriptor, classes by a
\* number; NullType and NullClass are the null pointers.
Identifiers == {"LFoo;", "LBar;", "LNoClass;", "LNoType;"}

NullType == "nullptr"

NullClass == 0

get_type(name) == IF name = "LNoType;" THEN NullType ELSE name

type_class(type) ==
  CASE type = "LFoo;" -> 1
    [] type = "LBar;" -> 2
    [] OTHER -> NullClass

NoFile == [observed |-> FALSE, exists |-> FALSE, content |-> <<>>]

FileStates ==
  {[observed |-> TRUE, exists |-> FALSE, content |-> <<>>]} \cup
  {[observed |-> TRUE, exists |-> TRUE, content |-> c] :
     c \in SeqsUpTo(Identifiers, MaxFileLen)}

\* the while loop of get_mixed_mode_classes(file) from token i on
RECURSIVE classes_file_loop(_, _, _)
classes_file_loop(content, i, acc) ==
  IF i > Len(content) THEN [exit |-> FALSE, classes |-> acc]
  ELSE LET type == get_type(content[i])
           cls  == type_class(type)
       IN  IF type = NullType THEN classes_file_loop(content, i + 1, acc)
           ELSE IF cls = NullClass THEN classes_file_loop(content, i + 1, acc)
           ELSE IF cls \in acc THEN [exit |-> TRUE, classes |-> acc]
           ELSE classes_file_loop(content, i + 1, acc \cup {cls})

\* mutation: the duplicate test is missing
RECURSIVE classes_file_loop_nodupcheck(_, _, _)
classes_file_loop_nodupcheck(content, i, acc) ==
  IF i > Len(content) THEN [exit |-> FALSE, classes |-> acc]
  ELSE LET cls == type_class(get_type(content[i]))
       IN  IF cls = NullClass THEN classes_file_loop_nodupcheck(content, i + 1, acc)
           ELSE classes_file_loop_nodupcheck(content, i + 1, acc \cup {cls})

get_mixed_mode_classes_nodupcheck(file) ==
  IF ~file.exists THEN [exit |-> FALSE, classes |-> {}]
  ELSE classes_file_loop_nodupcheck(file.content, 1, {})

\* mutation: an identifier without a type ends the loop
RECURSIVE classes_file_loop_stop(_, _, _)
classes_file_loop_stop(content, i, acc) ==
  IF i > Len(content) THEN [exit |-> FALSE, classes |-> acc]
  ELSE LET type == get_type(content[i])
           cls  == type_class(type)
       IN  IF type = NullType THEN [exit |-> FALSE, classes |-> acc]
           ELSE IF cls = NullClass THEN classes_file_loop_stop(content, i + 1, acc)
           ELSE IF cls \in acc THEN [exit |-> TRUE, classes |-> acc]
           ELSE classes_file_loop_stop(content, i + 1, acc \cup {cls})

get_mixed_mode_classes_stop(file) ==
  IF ~file.exists THEN [exit |-> FALSE, classes |-> {}]
  ELSE classes_file_loop_stop(file.content, 1, {})

\* get_mixed_mode_classes(mixed_mode_classes_file): the file-based overload
get_mixed_mode_classes_file(file) ==
  IF ~file.exists THEN [exit |-> FALSE, classes |-> {}]
  ELSE classes_file_loop(file.content, 1, {})

\* the flag scan over every class of every dex of dexen
flagged_classes(dexen, flags) == {c \in Range(Flatten(dexen)) : c \in flags}

\* mutation: the flag scan also runs when a file is configured
get_mixed_mode_classes_merging(dexen, file_name, file, flags) ==
  IF file_name # ""
  THEN LET r == get_mixed_mode_classes_file(file)
       IN  [exit |-> r.exit,
            classes |-> r.classes \cup flagged_classes(dexen, flags),
            read_file |-> TRUE, scanned_flags |-> TRUE]
  ELSE [exit |-> FALSE, classes |-> flagged_classes(dexen, flags),
        read_file |-> FALSE, scanned_flags |-> TRUE]

\* get_mixed_mode_classes(dexen, mixed_mode_classes_file)
get_mixed_mode_classes(dexen, file_name, file, flags) ==
  IF file_name # ""
  THEN LET r == get_mixed_mode_classes_file(file)
       IN  [exit |-> r.exit, classes |-> r.classes,
            read_file |-> TRUE, scanned_flags |-> FALSE]
  ELSE [exit |-> FALSE, classes |-> flagged_classes(dexen, flags),
        read_file |-> FALSE, scanned_flags |-> TRUE]

\* ------------------------------------------------------------ collaborators
\* registry->create_plugins(): the registered plugins, in registry order
create_plugins == [k \in 1..NumPlugins |-> k]

\* the plugin the k-th iteration of the configure loop visits
configure_plugin_at(ps, k) == ps[k]

\* mutation: the cleanup loop walks the plugins backwards
cleanup_plugin_reversed(ps, k) == ps[Len(ps) + 1 - k]

\* the plugin the k-th iteration of the cleanup loop visits
cleanup_plugin_at(ps, k) == ps[k]

\* InterDex::run(): greedy, order-preserving packing of the store's classes
\* (each of weight 1) into units of at most limit classes.
RECURSIVE pack(_, _, _)
pack(classes, limit, units) ==
  IF classes = <<>> THEN units
  ELSE LET n == Len(units)
       IN  IF n > 0 /\ Len(units[n]) + 1 <= limit
           THEN pack(Tail(classes), limit,
                     [units EXCEPT ![n] = Append(@, Head(classes))])
           ELSE pack(Tail(classes), limit, Append(units, <<Head(classes)>>))

interdex_run(dexen, limit) == pack(Flatten(dexen), limit, <<>>)

\* the state std::move may leave the moved-from member set in: emptied (the
\* callee move-constructs from it) or untouched (the callee copies)
moved_from(s) == {{}, s}

\* mutation: every store is treated as the root store
is_root_store_always(store) == TRUE

\* DexStore::is_root_store()
is_root_store(store) == store.is_root

\* mutation: the ProGuard precondition is not looked at
precondition_ignored(np) == FALSE

\* the test at the entry of run_pass(stores, cfg, mgr)
skip_pass(np) == np

METRIC_COLD_START_SET_DEX_COUNT == "num_cold_start_set_dexes"

METRIC_SCROLL_SET_DEX_COUNT == "num_scroll_dexes"

\* ------------------------------------------------------------------ inputs
Options ==
  {[static_prune |-> FALSE, emit_canaries |-> TRUE, normal_primary_dex |-> FALSE,
    linear_alloc_limit |-> DefaultLinearAllocLimit],
   [static_prune |-> TRUE, emit_canaries |-> FALSE, normal_primary_dex |-> TRUE,
    linear_alloc_limit |-> 1]}

JsonConfigs ==
  {[options |-> o, scroll_classes_file |-> f,
    can_touch_coldstart_cls |-> cs, can_touch_coldstart_extended_cls |-> ext,
    mixed_mode_dexes |-> names] :
     o \in Options, f \in {"", "scroll_classes.txt"},
     cs \in BOOLEAN, ext \in BOOLEAN,
     names \in SeqsUpTo(SegmentNames, MaxNames)}

\* store k holds classes 2k-1 and 2k, one per dex
InitialDexen(k) == <<(<<2 * k - 1>>), (<<2 * k>>)>>

StoreVectors ==
  {[k \in 1..MaxStores |-> [is_root |-> r[k], dexen |-> InitialDexen(k)]] :
     r \in [1..MaxStores -> BOOLEAN]}

\* either no class is flagged or the first class of every store is
FlagSets == {{}, {2 * k - 1 : k \in 1..MaxStores}}

\* the JsonWrapper after configure_pass has returned
NoJson == [released |-> TRUE]

NoEvents == <<>>

Event(e, p) == [ev |-> e, p |-> p]

NoInterDex ==
  [constructed |-> FALSE, linear_alloc_limit |-> 0, static_prune |-> FALSE,
   normal_primary_dex |-> FALSE, emit_canaries |-> FALSE,
   mixed_mode_dex_statuses |-> {}, mixed_mode_classes |-> {},
   has_mixed_mode_classes |-> FALSE,
   can_touch_coldstart_cls |-> FALSE,
   can_touch_coldstart_extended_cls |-> FALSE, ran |-> FALSE]

NoClassification ==
  [path |-> "none", result |-> {}, read_file |-> FALSE, scanned_flags |-> FALSE]

\* -------------------------------------------------------------------- Init
Init ==
  /\ pc = "start"
  /\ jw \in JsonConfigs
  /\ m_static_prune = FALSE
  /\ m_emit_canaries = TRUE
  /\ m_normal_primary_dex = FALSE
  /\ m_linear_alloc_limit = DefaultLinearAllocLimit
  /\ m_mixed_mode_classes_file = ""
  /\ m_can_touch_coldstart_cls = FALSE
  /\ m_can_touch_coldstart_extended_cls = FALSE
  /\ m_mixed_mode_dex_statuses = {}
  /\ configured = members
  /\ no_proguard_rules \in BOOLEAN
  /\ stores \in StoreVectors
  /\ stores0 = stores
  /\ has_mix_mode \in FlagSets
  /\ fs = NoFile
  /\ invocations = 0
  /\ si = 0
  /\ pi = 0
  /\ plugins = <<>>
  /\ interdex = NoInterDex
  /\ classification = NoClassification
  /\ events = NoEvents
  /\ runCount = [k \in 1..MaxStores |-> 0]
  /\ metrics = {}

\* ----------------------------------------------------------------- actions
\* InterDexPass::configure_pass(jw)
ConfigurePass ==
  /\ pc = "start"
  /\ m_static_prune' = jw.options.static_prune
  /\ m_emit_canaries' = jw.options.emit_canaries
  /\ m_normal_primary_dex' = jw.options.normal_primary_dex
  /\ m_linear_alloc_limit' = jw.options.linear_alloc_limit
  /\ m_mixed_mode_classes_file' = jw.scroll_classes_file
  /\ m_can_touch_coldstart_cls' = jw.can_touch_coldstart_cls
  /\ m_can_touch_coldstart_extended_cls' = jw.can_touch_coldstart_extended_cls
  /\ IF ~permissions_assert(jw.can_touch_coldstart_cls,
                            jw.can_touch_coldstart_extended_cls)
     THEN /\ pc' = "aborted"
          /\ UNCHANGED m_mixed_mode_dex_statuses
     ELSE LET r == get_mixed_mode_dex_statuses(jw.mixed_mode_dexes)
          IN  IF r.ok
              THEN /\ m_mixed_mode_dex_statuses' = r.res
                   /\ pc' = "configured"
              ELSE /\ pc' = "aborted"
                   /\ UNCHANGED m_mixed_mode_dex_statuses
  /\ configured' = members'
  /\ jw' = IF pc' = "configured" THEN NoJson ELSE jw
  /\ UNCHANGED <<invocations, env, stores, fs, si, pi, plugins, interdex,
                 classification, events, runCount, metrics>>

\* run_pass(stores, cfg, mgr): entry, the ProGuard test and build_class_scope
RunPassStores ==
  /\ pc \in {"configured", "returned"}
  /\ invocations < MaxInvocations
  /\ invocations' = invocations + 1
  /\ IF skip_pass(no_proguard_rules)
     THEN /\ pc' = "returned"
          /\ UNCHANGED <<si, runCount>>
     ELSE /\ pc' = "stores"
          /\ si' = 1
          /\ runCount' = [k \in 1..MaxStores |-> 0]
  /\ UNCHANGED <<jw, members, configured, env, stores, fs, pi, plugins,
                 interdex, classification, events, metrics>>

\* the stores loop is over: run_pass(stores, cfg, mgr) returns
ReturnFromStores ==
  /\ pc = "stores"
  /\ si > Len(stores)
  /\ pc' = "returned"
  /\ UNCHANGED <<invocations, jw, members, configured, env, stores, fs, si,
                 pi, plugins, interdex, classification, events, runCount,
                 metrics>>

\* the stores loop passes over a store that is not the root store
SkipStore ==
  /\ pc = "stores"
  /\ si <= Len(stores)
  /\ ~is_root_store(stores[si])
  /\ si' = si + 1
  /\ UNCHANGED <<invocations, pc, jw, members, configured, env, stores, fs, 
                 pi, plugins, interdex, classification, events, runCount,
                 metrics>>

\* run_pass(dexen, scope, cfg, mgr) is entered for a root store: the
\* registry creates the plugins
EnterRunPass ==
  /\ pc = "stores"
  /\ si <= Len(stores)
  /\ is_root_store(stores[si])
  /\ plugins' = create_plugins
  /\ pi' = 1
  /\ interdex' = NoInterDex
  /\ classification' = NoClassification
  /\ events' = NoEvents
  /\ pc' = "configure"
  /\ UNCHANGED <<invocations, jw, members, configured, env, stores, fs, si,
                 runCount, metrics>>

\* one iteration of the plugin->configure loop
PluginConfigure ==
  /\ pc = "configure"
  /\ pi <= Len(plugins)
  /\ events' = Append(events, Event("configure", configure_plugin_at(plugins, pi)))
  /\ pi' = pi + 1
  /\ UNCHANGED <<invocations, pc, jw, members, configured, env, stores, fs, 
                 si, plugins, interdex, classification, runCount, metrics>>

\* InterDex interdex(dexen, ..., m_linear_alloc_limit, m_static_prune, ...)
ConstructInterDex ==
  /\ pc = "configure"
  /\ pi > Len(plugins)
  /\ interdex' = [NoInterDex EXCEPT !.constructed = TRUE,
                                    !.linear_alloc_limit = m_linear_alloc_limit,
                                    !.static_prune = m_static_prune,
                                    !.normal_primary_dex = m_normal_primary_dex,
                                    !.emit_canaries = m_emit_canaries]
  /\ pc' = "classify"
  /\ UNCHANGED <<invocations, jw, members, configured, env, stores, fs, si,
                 pi, plugins, classification, events, runCount, metrics>>

\* the branch taken when m_mixed_mode_dex_statuses is not empty
SegmentSetPath ==
  /\ pc = "classify"
  /\ m_mixed_mode_dex_statuses # {}
  /\ interdex' = [interdex EXCEPT
                    !.mixed_mode_dex_statuses = m_mixed_mode_dex_statuses]
  /\ m_mixed_mode_dex_statuses' \in moved_from(m_mixed_mode_dex_statuses)
  /\ classification' = [path |-> "segments", result |-> {},
                        read_file |-> FALSE, scanned_flags |-> FALSE]
  /\ events' = Append(events, Event("classify", 0))
  /\ pc' = "run"
  /\ UNCHANGED <<invocations, jw, m_static_prune, m_emit_canaries, m_normal_primary_dex,
                 m_linear_alloc_limit, m_mixed_mode_classes_file,
                 m_can_touch_coldstart_cls, m_can_touch_coldstart_extended_cls,
                 configured, env, stores, fs, si, pi, plugins,
                 runCount, metrics>>

\* the else branch: get_mixed_mode_classes(dexen, m_mixed_mode_classes_file)
\* and, for a non-empty result, set_mixed_mode_classes.  The file is an
\* external input whose content is fixed once it has been opened.
ClassSetPath ==
  /\ pc = "classify"
  /\ m_mixed_mode_dex_statuses = {}
  /\ \E file \in FileStates \cup {NoFile} :
       /\ IF m_mixed_mode_classes_file = "" THEN file = fs
          ELSE file.observed /\ (fs.observed => file = fs)
       /\ fs' = file
       /\ LET r == get_mixed_mode_classes(stores[si].dexen,
                                          m_mixed_mode_classes_file, file,
                                          has_mix_mode)
          IN  /\ classification' = [path |-> "classes", result |-> r.classes,
                                    read_file |-> r.read_file,
                                    scanned_flags |-> r.scanned_flags]
              /\ IF r.exit
                 THEN /\ pc' = "exited"
                      /\ UNCHANGED <<interdex, events>>
                 ELSE /\ pc' = "run"
                      /\ events' = Append(events, Event("classify", 0))
                      /\ interdex' =
                           IF Cardinality(r.classes) > 0
                           THEN [interdex EXCEPT
                                   !.mixed_mode_classes = r.classes,
                                   !.has_mixed_mode_classes = TRUE,
                                   !.can_touch_coldstart_cls =
                                      m_can_touch_coldstart_cls,
                                   !.can_touch_coldstart_extended_cls =
                                      m_can_touch_coldstart_extended_cls]
                           ELSE interdex
  /\ UNCHANGED <<invocations, jw, members, configured, env, stores, si, pi,
                 plugins, runCount, metrics>>

\* dexen = interdex.run()
InterDexRun ==
  /\ pc = "run"
  /\ stores' = [stores EXCEPT ![si].dexen =
                  interdex_run(@, interdex.linear_alloc_limit)]
  /\ interdex' = [interdex EXCEPT !.ran = TRUE]
  /\ runCount' = [runCount EXCEPT ![si] = @ + 1]
  /\ events' = Append(events, Event("run", 0))
  /\ pi' = 1
  /\ pc' = "cleanup"
  /\ UNCHANGED <<invocations, jw, members, configured, env, fs, si, plugins,
                 classification, metrics>>

\* one iteration of the plugin->cleanup loop
PluginCleanup ==
  /\ pc = "cleanup"
  /\ pi <= Len(plugins)
  /\ events' = Append(events, Event("cleanup", cleanup_plugin_at(plugins, pi)))
  /\ pi' = pi + 1
  /\ UNCHANGED <<invocations, pc, jw, members, configured, env, stores, fs, 
                 si, plugins, interdex, classification, runCount, metrics>>

\* mgr.set_metric(METRIC_COLD_START_SET_DEX_COUNT, ...)
SetMetricColdStart ==
  /\ pc = "cleanup"
  /\ pi > Len(plugins)
  /\ metrics' = metrics \cup {METRIC_COLD_START_SET_DEX_COUNT}
  /\ events' = Append(events, Event(METRIC_COLD_START_SET_DEX_COUNT, 0))
  /\ pc' = "metric"
  /\ UNCHANGED <<invocations, jw, members, configured, env, stores, fs, si,
                 pi, plugins, interdex, classification, runCount>>

\* mgr.set_metric(METRIC_SCROLL_SET_DEX_COUNT, ...); plugins.clear(); the
\* run returns to the stores loop
SetMetricScroll ==
  /\ pc = "metric"
  /\ metrics' = metrics \cup {METRIC_SCROLL_SET_DEX_COUNT}
  /\ events' = Append(events, Event(METRIC_SCROLL_SET_DEX_COUNT, 0))
  /\ plugins' = <<>>
  /\ si' = si + 1
  /\ pc' = "stores"
  /\ UNCHANGED <<invocations, jw, members, configured, env, stores, fs, pi,
                 interdex, classification, runCount>>

Next ==
  \/ ConfigurePass
  \/ RunPassStores
  \/ ReturnFromStores
  \/ SkipStore
  \/ EnterRunPass
  \/ PluginConfigure
  \/ ConstructInterDex
  \/ SegmentSetPath
  \/ ClassSetPath
  \/ InterDexRun
  \/ PluginCleanup
  \/ SetMetricColdStart
  \/ SetMetricScroll

Spec == Init /\ [][Next]_vars

TypeOK ==
  /\ pc \in {"start", "configured", "aborted", "returned", "stores",
              "configure", "classify", "run", "cleanup", "metric", "exited"}
  /\ m_mixed_mode_dex_statuses \subseteq {string_to_status[n] : n \in KnownNames}
  /\ invocations \in 0..MaxInvocations

\* ------------------------------------------------------------- vocabulary
AllKnown(names) == \A i \in DOMAIN names : names[i] \in KnownNames

StatusesOf(names) == {string_to_status[n] : n \in Range(names) \cap KnownNames}

ConfiguredStatuses == configured[8]

\* the classes the identifiers of a file resolve to
ResolvedClasses(content) ==
  {type_class(get_type(id)) : id \in Range(content)} \ {NullClass}

HasDuplicate(content) ==
  \E i, j \in DOMAIN content : i < j /\ content[i] = content[j]

HasResolvedDuplicate(content) ==
  \E i, j \in DOMAIN content :
    i < j /\ content[i] = content[j] /\ type_class(get_type(content[i])) # NullClass

StoreClasses(k) == Range(Flatten(stores0[k].dexen))

AfterClassification == pc \in {"run", "cleanup", "metric", "exited"}

ExpectedEvents ==
  [k \in 1..NumPlugins |-> Event("configure", k)]
    \o <<Event("classify", 0), Event("run", 0)>>
    \o [k \in 1..NumPlugins |-> Event("cleanup", k)]
    \o <<Event(METRIC_COLD_START_SET_DEX_COUNT, 0),
         Event(METRIC_SCROLL_SET_DEX_COUNT, 0)>>

IsPrefix(s, t) == Len(s) <= Len(t) /\ SubSeq(t, 1, Len(s)) = s

\* ------------------------------------------------------------------ claims

\* C1: a mixed_mode_dexes list with a name outside the built-in keys makes
\* configure_pass abort: the pass stores no segment set (not even the names
\* resolved before the unknown one), and no plugin hook, engine
\* construction, packing run or metric ever follows.  When configure_pass
\* completes, the stored set is exactly the set the names map to.
C1_UnknownNameAborts ==
  [][/\ pc = "start" =>
          /\ ~AllKnown(jw.mixed_mode_dexes) =>
               /\ pc' = "aborted"
               /\ m_mixed_mode_dex_statuses' = {}
               /\ events' = NoEvents
               /\ plugins' = <<>>
               /\ ~interdex'.constructed
               /\ metrics' = {}
          /\ pc' = "configured" =>
               /\ AllKnown(jw.mixed_mode_dexes)
               /\ m_mixed_mode_dex_statuses' = StatusesOf(jw.mixed_mode_dexes)
     /\ pc = "aborted" => UNCHANGED vars]_vars

\* C1 witness: the abort happened at the second name, after a known first one
C1_Witness ==
  /\ pc = "aborted"
  /\ permissions_assert(jw.can_touch_coldstart_cls,
                        jw.can_touch_coldstart_extended_cls)
  /\ Len(jw.mixed_mode_dexes) = 2
  /\ jw.mixed_mode_dexes[1] \in KnownNames
  /\ jw.mixed_mode_dexes[2] \notin KnownNames

\* C2: configure_pass aborts exactly on can_touch_coldstart_cls without
\* can_touch_coldstart_extended_cls (the other three combinations pass the
\* permission test), so once configure_pass has completed, and whenever the
\* permissions are handed to the packing engine, can_touch_coldstart implies
\* can_touch_coldstart_extended.
C2_PermissionImplication ==
  /\ pc = "aborted" /\ AllKnown(jw.mixed_mode_dexes) =>
       jw.can_touch_coldstart_cls /\ ~jw.can_touch_coldstart_extended_cls
  /\ pc \notin {"start", "aborted"} =>
       (m_can_touch_coldstart_cls => m_can_touch_coldstart_extended_cls)
  /\ interdex.has_mixed_mode_classes =>
       (interdex.can_touch_coldstart_cls =>
          interdex.can_touch_coldstart_extended_cls)

\* C2 witness: a class set was handed to the engine with can_touch_coldstart
C2_Witness ==
  /\ interdex.has_mixed_mode_classes
  /\ interdex.can_touch_coldstart_cls
  /\ interdex.can_touch_coldstart_extended_cls

\* C3: within one run over a root store the events are always a prefix of:
\* configure on each plugin in plugin order, classification, one packing
\* run, cleanup on each plugin in the same order, the cold-start metric, the
\* scroll metric; a run that has returned produced exactly that sequence.
C3_EventOrder ==
  /\ IsPrefix(events, ExpectedEvents)
  /\ pc \in {"stores", "returned"} /\ events # NoEvents => events = ExpectedEvents
  /\ pc = "classify" => Len(events) = NumPlugins
  /\ pc = "run" => Len(events) = NumPlugins + 1

\* C3 witness: a run over a root store has completed
C3_Witness == pc = "returned" /\ events = ExpectedEvents

\* C4: whenever the segment set configure_pass resolved is non-empty, the
\* classification of a run hands that set to the engine and no class set:
\* the classification file is not read and the flags are not scanned.
C4_SegmentSetPriority ==
  AfterClassification /\ ConfiguredStatuses # {} =>
    /\ classification.path = "segments"
    /\ interdex.mixed_mode_dex_statuses = ConfiguredStatuses
    /\ ~interdex.has_mixed_mode_classes
    /\ ~classification.read_file
    /\ ~classification.scanned_flags

\* C5: in the class-set path with a classification file configured the
\* flags are never scanned and the result holds only classes the file's
\* identifiers resolve to (none when the file is missing); with no file
\* configured the file is not read and the result is exactly the flagged
\* classes of the store being processed.
C5_FileBeforeFlags ==
  AfterClassification /\ classification.path = "classes" =>
    IF m_mixed_mode_classes_file # ""
    THEN /\ classification.read_file
         /\ ~classification.scanned_flags
         /\ classification.result \subseteq ResolvedClasses(fs.content)
         /\ ~fs.exists => classification.result = {}
         /\ pc # "exited" => classification.result = ResolvedClasses(fs.content)
    ELSE /\ ~classification.read_file
         /\ classification.scanned_flags
         /\ classification.result = StoreClasses(si) \cap has_mix_mode

\* C5 witness: a file that yields no class was used although the store has
\* a flagged class
C5_Witness ==
  /\ pc = "run"
  /\ classification.path = "classes"
  /\ m_mixed_mode_classes_file # ""
  /\ StoreClasses(si) \cap has_mix_mode # {}
  /\ classification.result = {}

\* C6 (as stated): once the classification file has been read, any repeated
\* identifier in it has ended the process before the packing run, before
\* any cleanup and before any metric of the run.
C6_AnyDuplicateFatal ==
  classification.read_file /\ HasDuplicate(fs.content) =>
    /\ pc = "exited"
    /\ ~interdex.ran
    /\ \A i \in DOMAIN events : events[i].ev = "configure"

\* C6 (amended): once the classification file has been read, a repeated
\* identifier that resolves to a class has ended the process before the
\* packing run, before any cleanup and before any metric of the run.
C6_ResolvedDuplicateFatal ==
  classification.read_file /\ HasResolvedDuplicate(fs.content) =>
    /\ pc = "exited"
    /\ ~interdex.ran
    /\ \A i \in DOMAIN events : events[i].ev = "configure"

\* C6 witness: the process exited on a repeated resolvable identifier
C6_Witness ==
  /\ pc = "exited"
  /\ classification.read_file
  /\ HasResolvedDuplicate(fs.content)

\* C7: reading a classification file without repeated identifiers never
\* exits; the result is exactly the classes its identifiers resolve to
\* (empty for a missing file); the engine is handed that set when it is
\* non-empty and no class set when it is empty, and the packing run follows.
C7_FileResult ==
  classification.read_file /\ ~HasDuplicate(fs.content) =>
    /\ pc # "exited"
    /\ classification.result = ResolvedClasses(fs.content)
    /\ ~fs.exists => classification.result = {}
    /\ classification.result = {} => ~interdex.has_mixed_mode_classes
    /\ classification.result # {} =>
         /\ interdex.has_mixed_mode_classes
         /\ interdex.mixed_mode_classes = classification.result
    /\ pc \in {"cleanup", "metric", "stores", "returned"} => interdex.ran

\* C7 witness: an unresolvable identifier was skipped, a later one was kept,
\* and the packing run took place
C7_Witness ==
  /\ classification.read_file
  /\ Len(fs.content) = 2
  /\ type_class(get_type(fs.content[1])) = NullClass
  /\ classification.result = {type_class(get_type(fs.content[2]))}
  /\ interdex.ran

\* C8: without ProGuard rules the pass does nothing: no plugin is created or
\* configured, nothing is classified, no file is opened, the engine is
\* neither constructed nor run, the stores and the metrics are unchanged,
\* and run_pass returns.
C8_NoProguardNoOp ==
  no_proguard_rules =>
    /\ pc \in {"start", "configured", "aborted", "returned"}
    /\ plugins = <<>>
    /\ events = NoEvents
    /\ classification = NoClassification
    /\ fs = NoFile
    /\ interdex = NoInterDex
    /\ stores = stores0
    /\ metrics = {}
    /\ \A k \in DOMAIN runCount : runCount[k] = 0

\* C8 witness: run_pass was called without ProGuard rules and returned
C8_Witness == no_proguard_rules /\ pc = "returned" /\ invocations = MaxInvocations

\* C9: a store that is not a root store is never handed to the engine and
\* keeps its class groups; within one call of run_pass the engine runs at
\* most once per store and, when the call returns, exactly once per root
\* store.
C9_OnlyRootStores ==
  \A k \in DOMAIN stores :
    /\ stores[k].is_root = stores0[k].is_root
    /\ ~stores0[k].is_root => stores[k] = stores0[k] /\ runCount[k] = 0
    /\ runCount[k] <= 1
    /\ stores0[k].is_root /\ pc = "returned" /\ ~no_proguard_rules => runCount[k] = 1

\* C9 witness: the call returned having repacked a root store next to a
\* non-root store
C9_Witness ==
  /\ pc = "returned"
  /\ \E k \in DOMAIN stores : stores0[k].is_root /\ stores[k] # stores0[k]
  /\ \E k \in DOMAIN stores : ~stores0[k].is_root

\* C10: from the completion of configure_pass on, the members of the pass
\* (segment set, permissions, size ceiling, flags, file name) equal what
\* configure_pass stored.
C10_ConfigurationUnchanged ==
  pc \notin {"start", "aborted"} => members = configured

====
